---- MODULE Spec2Model ----
(***************************************************************************)
(* The artifact lifecycle of zma.ai: the gallery of App (in-memory list,   *)
(* its localStorage projection and the quota-driven save cycle) and the    *)
(* edit chain of ImageStudio (editStack, editStackIndex, generatedImage,   *)
(* sessionHistory and the asynchronous AI handlers that feed them).        *)
(*                                                                         *)
(* Nullable values (T | null) are sequences of length at most one.         *)
(* Strings whose content matters (data URIs, base64 payloads, the JSON     *)
(* text in localStorage) are structured values; a base64 payload is a      *)
(* sequence whose length is its byte size.                                 *)
(***************************************************************************)
EXTENDS Integers, Sequences, FiniteSets, TLC

\* ------------------------------------------------------------------ bounds
\* Number of images the generative backend returns in one behaviour.
MaxImages == 3
\* Byte budget of the durable medium for the gallery payload.
Budget == 4

\* ------------------------------------------------------- nullable values
Null == <<>>
Some(x) == <<x>>
Val(o) == o[1]

Remove(s, i) == SubSeq(s, 1, i - 1) \o SubSeq(s, i + 1, Len(s))
Min(a, b) == IF a < b THEN a ELSE b

\* ---------------------------------------------------------------- images
\* Payload sizes the backend can return: one that fits the budget and one
\* that alone exceeds it.
PayloadLens == {3, Budget + 1}

\* A base64 payload of len bytes; the content is the serial of the response.
Base64(serial, len) == [i \in 1..len |-> serial]

NoUrl == <<"none", "", <<>>>>
BlobUrl(n) == <<"blob", "", <<n>>>>
\* `data:${mimeType};base64,${base64}`
DataUri(mimeType, base64) == <<"data", mimeType, base64>>

\* A GeneratedImage as the handlers build it (prompt, type, createdAt,
\* parentId and settings are opaque values that no operation reads; they
\* travel with base64 and mimeType).
NewImage(id, originalSrc, base64, mimeType) ==
    [id |-> id, src |-> DataUri(mimeType, base64), originalSrc |-> originalSrc,
     base64 |-> base64, mimeType |-> mimeType]

\* const { src, originalSrc, ...rest } = img; return rest;
Savable(img) ==
    [id |-> img.id, base64 |-> img.base64, mimeType |-> img.mimeType]

\* A reconstruction that takes every stored image for a PNG.
Reconstruct_AssumesPng(rec) ==
    [id |-> rec.id, src |-> DataUri("image/png", rec.base64), originalSrc |-> NoUrl,
     base64 |-> rec.base64, mimeType |-> rec.mimeType]

\* ({ ...img, src: `data:${img.mimeType};base64,${img.base64}` })
Reconstruct(rec) ==
    [id |-> rec.id, src |-> DataUri(rec.mimeType, rec.base64), originalSrc |-> NoUrl,
     base64 |-> rec.base64, mimeType |-> rec.mimeType]

SavableImages(images) == [i \in 1..Len(images) |-> Savable(images[i])]
ReconstructAll(records) == [i \in 1..Len(records) |-> Reconstruct(records[i])]
IdsOf(s) == {s[i].id : i \in 1..Len(s)}

\* ---------------------------------------------------------- localStorage
\* The value of key 'zma-ai-gallery': null, a JSON text, or a text that
\* JSON.parse rejects.
NullItem == [kind |-> "null", text |-> <<>>]
GarbageItem == [kind |-> "garbage", text |-> <<>>]
JSONStringify(records) == [kind |-> "json", text |-> records]
JSONParse(item) == item.text
Truthy(item) == item.kind # "null"

RECURSIVE SumLens(_)
SumLens(records) ==
    IF records = <<>> THEN 0
    ELSE Len(records[1].base64) + SumLens(Tail(records))

\* Size of a payload: the base64 bodies dominate the JSON text.
PayloadSize(item) == SumLens(item.text)

\* localStorage.setItem(key, value): the error it throws, if any. The write
\* numbered faultAt of a save cycle fails for a reason other than capacity
\* (0: none does); otherwise a value over the budget is refused.
SetItemError(item, attempt, faultAt) ==
    IF attempt = faultAt THEN "OtherError"
    ELSE IF PayloadSize(item) > Budget THEN "QuotaExceededError"
    ELSE "none"

\* error.name === 'QuotaExceededError' || message mentions quota / exceeded
IsQuotaError(err) == err = "QuotaExceededError"

\* imagesToTry.pop() (and, before it, imagesToTry.shift() in its place)
DropOldest_DropsNewest(imagesToTry) == Tail(imagesToTry)
DropOldest(imagesToTry) == SubSeq(imagesToTry, 1, Len(imagesToTry) - 1)

\* The loop with the condition imagesToTry.length >= 0: it goes on to write
\* the empty list.
RECURSIVE TryWrite_WritesEmpty(_, _, _)
TryWrite_WritesEmpty(imagesToTry, attempt, faultAt) ==
    LET err == SetItemError(JSONStringify(imagesToTry), attempt, faultAt)
    IN  IF err = "none"
        THEN [result |-> "written", written |-> imagesToTry, attempts |-> attempt]
        ELSE IF IsQuotaError(err)
             THEN IF Len(imagesToTry) = 0
                  THEN [result |-> "exhausted", written |-> <<>>, attempts |-> attempt]
                  ELSE TryWrite_WritesEmpty(DropOldest(imagesToTry), attempt + 1, faultAt)
             ELSE [result |-> "error", written |-> <<>>, attempts |-> attempt]

\* A loop that drops the oldest image and retries after any error.
RECURSIVE TryWrite_RetriesAnyError(_, _, _)
TryWrite_RetriesAnyError(imagesToTry, attempt, faultAt) ==
    IF Len(imagesToTry) = 0
    THEN [result |-> "exhausted", written |-> <<>>, attempts |-> attempt - 1]
    ELSE LET err == SetItemError(JSONStringify(imagesToTry), attempt, faultAt)
         IN  IF err = "none"
             THEN [result |-> "written", written |-> imagesToTry, attempts |-> attempt]
             ELSE TryWrite_RetriesAnyError(DropOldest(imagesToTry), attempt + 1, faultAt)

\* let imagesToTry = [...savableImages]; while (imagesToTry.length > 0) {...}
RECURSIVE TryWrite(_, _, _)
TryWrite(imagesToTry, attempt, faultAt) ==
    IF Len(imagesToTry) = 0
    THEN [result |-> "exhausted", written |-> <<>>, attempts |-> attempt - 1]
    ELSE LET err == SetItemError(JSONStringify(imagesToTry), attempt, faultAt)
         IN  IF err = "none"
             THEN [result |-> "written", written |-> imagesToTry, attempts |-> attempt]
             ELSE IF IsQuotaError(err)
                  THEN TryWrite(DropOldest(imagesToTry), attempt + 1, faultAt)
                  ELSE [result |-> "error", written |-> <<>>, attempts |-> attempt]

\* ------------------------------------------- updates of galleryImages
\* setGalleryImages(updater) calls queued until React renders App again.
AddUpdate(image) == [op |-> "add", images |-> <<image>>, ids |-> {}]
KeepUpdate(keptImageIds) == [op |-> "keep", images |-> <<>>, ids |-> keptImageIds]
SetUpdate(images) == [op |-> "set", images |-> images, ids |-> {}]
DeleteUpdate(imageId) == [op |-> "delete", images |-> <<>>, ids |-> {imageId}]

\* prev => [image, ...prev], the updater without its guard
AddImage_NoDedupe(prev, image) == <<image>> \o prev

\* An insert that puts the image behind the others.
AddImage_Appends(prev, image) ==
    IF \E i \in 1..Len(prev) : prev[i].id = image.id THEN prev ELSE prev \o <<image>>

\* prev => prev.some(img => img.id === image.id) ? prev : [image, ...prev]
AddImage(prev, image) ==
    IF \E i \in 1..Len(prev) : prev[i].id = image.id THEN prev ELSE <<image>> \o prev

\* A reconciliation that leaves the gallery in memory as it is.
KeepImages_KeepsAll(prev, keptImageIds) == prev

\* prevImages => prevImages.filter(img => keptImageIds.has(img.id))
KeepImages(prev, keptImageIds) == SelectSeq(prev, LAMBDA img : img.id \in keptImageIds)

\* A deletion that takes out the newest image, whichever was asked for.
DeleteImage_DropsNewest(prev, imageId) == Tail(prev)

\* prev => prev.filter(img => img.id !== imageId)
DeleteImage(prev, imageId) == SelectSeq(prev, LAMBDA img : img.id # imageId)

ApplyUpdate(u, prev) ==
    CASE u.op = "add" -> AddImage(prev, u.images[1])
      [] u.op = "keep" -> KeepImages(prev, u.ids)
      [] u.op = "set" -> u.images
      [] OTHER -> DeleteImage(prev, CHOOSE id \in u.ids : TRUE)

\* An updater that returns prev itself leaves the state object the same.
SameObject(u, prev) ==
    u.op = "add" /\ \E i \in 1..Len(prev) : prev[i].id = u.images[1].id

RECURSIVE ApplyAll(_, _)
ApplyAll(updates, prev) ==
    IF updates = <<>> THEN prev
    ELSE ApplyAll(Tail(updates), ApplyUpdate(updates[1], prev))

RECURSIVE AllSameObject(_, _)
AllSameObject(updates, prev) ==
    IF updates = <<>> THEN TRUE
    ELSE /\ SameObject(updates[1], prev)
         /\ AllSameObject(Tail(updates), ApplyUpdate(updates[1], prev))

\* ------------------------------------------------------- App: gallery
\* An initialiser that starts with the empty gallery whatever is stored.
LoadGallery_LoadsNothing(localData) == <<>>

\* useState initialiser of galleryImages.
LoadGallery(localData) ==
    IF ~Truthy(localData) THEN <<>>
    ELSE IF localData.kind = "garbage" THEN <<>>
    ELSE ReconstructAll(JSONParse(localData))

\* A revert that takes the newest image out of the gallery in memory.
RevertUpdate_DropsNewest(images, persistedGalleryJSON) == Some(SetUpdate(Tail(images)))

\* The revert of a total failure: setGalleryImages(reconstructedGallery) or
\* setGalleryImages([]).
RevertUpdate(images, persistedGalleryJSON) ==
    IF Truthy(persistedGalleryJSON)
    THEN Some(SetUpdate(ReconstructAll(JSONParse(persistedGalleryJSON))))
    ELSE Some(SetUpdate(<<>>))

\* A test that also takes a write of the whole list for an eviction.
WroteFewer_OrEqual(written, images) == Len(written) <= Len(images)

\* imagesToTry.length < galleryImages.length
WroteFewer(written, images) == Len(written) < Len(images)

\* A comparison that never finds the store up to date.
SameAsPersisted_NeverSame(savableImages, persistedGalleryJSON) == FALSE

\* A comparison that takes any stored value for the current gallery.
SameAsPersisted_AnyStored(savableImages, persistedGalleryJSON) ==
    Truthy(persistedGalleryJSON)

\* persistedGalleryJSON && JSON.stringify(savableImages) === persistedGalleryJSON
SameAsPersisted(savableImages, persistedGalleryJSON) ==
    /\ Truthy(persistedGalleryJSON)
    /\ JSONStringify(savableImages) = persistedGalleryJSON

\* A removal that leaves the key as it is.
RemoveItem_KeepsKey(persistedGalleryJSON) == persistedGalleryJSON

\* localStorage.removeItem('zma-ai-gallery')
RemoveItem(persistedGalleryJSON) == NullItem

\* saveToLocalStorage, the body of the effect on [galleryImages]: the new
\* value of the key, the update of galleryImages it queues (if any), the
\* way it ended and the number of setItem calls it made.
SaveToLocalStorage(images, persistedGalleryJSON, faultAt) ==
    IF Len(images) = 0
    THEN [item |-> IF Truthy(persistedGalleryJSON) THEN RemoveItem(persistedGalleryJSON)
                   ELSE persistedGalleryJSON,
          update |-> Null, attempts |-> 0,
          outcome |-> IF Truthy(persistedGalleryJSON) THEN "removed" ELSE "empty"]
    ELSE LET savableImages == SavableImages(images)
         IN  IF SameAsPersisted(savableImages, persistedGalleryJSON)
             THEN [item |-> persistedGalleryJSON, update |-> Null, attempts |-> 0,
                   outcome |-> "unchanged"]
             ELSE LET r == TryWrite(savableImages, 1, faultAt)
                  IN  CASE r.result = "written" ->
                             [item |-> JSONStringify(r.written),
                              update |-> IF WroteFewer(r.written, images)
                                         THEN Some(KeepUpdate(IdsOf(r.written)))
                                         ELSE Null,
                              attempts |-> r.attempts,
                              outcome |-> IF WroteFewer(r.written, images)
                                          THEN "evicted" ELSE "written"]
                        [] r.result = "error" ->
                             [item |-> persistedGalleryJSON, update |-> Null,
                              attempts |-> r.attempts, outcome |-> "aborted"]
                        [] OTHER ->
                             [item |-> persistedGalleryJSON,
                              update |-> RevertUpdate(images, persistedGalleryJSON),
                              attempts |-> r.attempts, outcome |-> "totalFailure"]

\* ------------------------------------------------ ImageStudio: edit chain
\* A file the user uploads, and the input file "Use as Input" makes of the
\* displayed image.
UserFile == [url |-> BlobUrl(1), base64 |-> Base64(0, 1), mimeType |-> "image/png"]
FileOf(image) == [url |-> image.src, base64 |-> image.base64, mimeType |-> image.mimeType]

\* prevStack.slice(0, end) for end >= 0
Slice(prevStack, end) == SubSeq(prevStack, 1, Min(end, Len(prevStack)))

\* The updater processNewImage gives setEditStack; index is the
\* editStackIndex of the render that created the callback.
PushStack_KeepsRedo(prevStack, index, image, isFreshChain) ==
    IF isFreshChain THEN <<image>> ELSE prevStack \o <<image>>
PushStack_NeverResets(prevStack, index, image, isFreshChain) ==
    Slice(prevStack, index + 1) \o <<image>>
PushStack(prevStack, index, image, isFreshChain) ==
    IF isFreshChain THEN <<image>> ELSE Slice(prevStack, index + 1) \o <<image>>

\* The updater processNewImage gives setEditStackIndex (and, before it, one
\* that counts on whatever the chain).
PushIndex_NoReset(prevIndex, isFreshChain) == prevIndex + 1
PushIndex(prevIndex, isFreshChain) == IF isFreshChain THEN 0 ELSE prevIndex + 1

\* What a handler holds while it awaits the backend, from the render in
\* which it was started: the url of its input image (NoUrl: none), the src
\* of generatedImage (NoUrl: null) and editStackIndex.
UrlOf(file) == IF file = Null THEN NoUrl ELSE Val(file).url
SrcOf(image) == IF image = Null THEN NoUrl ELSE Val(image).src
Closure(handler, inputUrl, generatedSrc, index) ==
    [handler |-> handler, inputUrl |-> inputUrl, generatedSrc |-> generatedSrc,
     editStackIndex |-> index]

\* !generatedImage || (image.url !== generatedImage.src)
InputIsNotDisplayed(c) == c.generatedSrc = NoUrl \/ c.inputUrl # c.generatedSrc

\* Faulty classifications: every result starts a chain; the upscale of the
\* displayed image starts a chain.
IsFreshChain_AlwaysFresh(c) == TRUE
IsFreshChain_UpscaleIsFresh(c) ==
    CASE c.handler = "generate" ->
             IF c.inputUrl = NoUrl THEN TRUE ELSE InputIsNotDisplayed(c)
      [] c.handler = "single" -> InputIsNotDisplayed(c)
      [] c.handler = "variation" -> FALSE
      [] OTHER -> TRUE

\* isFreshChain as each handler computes it before processNewImage.
IsFreshChain(c) ==
    CASE c.handler = "generate" ->
             IF c.inputUrl = NoUrl THEN TRUE ELSE InputIsNotDisplayed(c)
      [] c.handler = "single" -> InputIsNotDisplayed(c)
      [] c.handler = "variation" -> FALSE
      [] OTHER -> FALSE

\* The image a handler builds from the backend's response: originalSrc is
\* the url of the input, unset for a generation from text alone.
ResponseImage(c, id, base64, mimeType) == NewImage(id, c.inputUrl, base64, mimeType)

\* The media type of the backend's image: generateImages is asked for
\* outputMimeType 'image/jpeg'; the image model answers an edit with a png.
MimeOf(c) ==
    IF c.handler = "generate" /\ c.inputUrl = NoUrl THEN "image/jpeg" ELSE "image/png"

\* ------------------------------------------------------------------ state
VARIABLES
    view,             \* App: the view rendered
    galleryImages,    \* App: the gallery of the last render
    pendingUpdates,   \* App: setGalleryImages calls not yet rendered
    effectPending,    \* App: the effect on [galleryImages] has yet to run
    localStorage,     \* the value of key 'zma-ai-gallery'
    saveOutcome,      \* how the last run of saveToLocalStorage ended
    mode,             \* ImageStudio state, as named in the component
    activeImage,
    generatedImage,
    editStack,
    editStackIndex,
    sessionHistory,
    isLoading,
    request,          \* the closure of the handler awaiting the backend
    lastPush,         \* the processNewImage call React has yet to render
    abandoned,        \* closures of handlers whose ImageStudio was unmounted
    now,              \* the last reading of the clock
    produced          \* number of images the backend has returned

appVars == <<view, galleryImages, pendingUpdates, effectPending, localStorage, saveOutcome>>
chainVars == <<editStack, editStackIndex, generatedImage>>
studioVars == <<mode, activeImage, generatedImage, editStack, editStackIndex,
                sessionHistory, isLoading, request>>
stateVars == <<mode, activeImage, generatedImage, editStack, editStackIndex,
               sessionHistory, isLoading, request, lastPush>>
envVars == <<now, produced>>
vars == <<view, galleryImages, pendingUpdates, effectPending, localStorage, saveOutcome,
          mode, activeImage, generatedImage, editStack, editStackIndex,
          sessionHistory, isLoading, request, lastPush, abandoned, now, produced>>

\* Number of handlers left awaiting the backend by unmounted components.
MaxAbandoned == 1

Modes == {"generate", "edit"}
Views == {"studio", "gallery"}

\* Records a previous session left in the store, newest first.
OldRecord(id) == Savable(NewImage(id, NoUrl, Base64(id, 2), "image/jpeg"))
InitItems == {NullItem, GarbageItem, JSONStringify(<<OldRecord(0), OldRecord(-1)>>)}

Init ==
    /\ view = "studio"
    /\ localStorage \in InitItems
    /\ galleryImages = LoadGallery(localStorage)
    /\ pendingUpdates = <<>>
    /\ effectPending = TRUE
    /\ saveOutcome = "none"
    /\ mode = "generate"
    /\ activeImage = Null
    /\ generatedImage = Null
    /\ editStack = <<>>
    /\ editStackIndex = -1
    /\ sessionHistory = <<>>
    /\ isLoading = FALSE
    /\ request = Null
    /\ lastPush = Null
    /\ abandoned = <<>>
    /\ now = 0
    /\ produced = 0

\* React has rendered every queued update and run the effect: the user
\* acts on the rendered page.
Idle == pendingUpdates = <<>> /\ ~effectPending

\* ------------------------------------------------------------ App actions
\* A render that also takes out of the chain and of the session history
\* the images the gallery no longer holds.
Render_PrunesStudio ==
    /\ pendingUpdates # <<>>
    /\ ~effectPending
    /\ galleryImages' = ApplyAll(pendingUpdates, galleryImages)
    /\ pendingUpdates' = <<>>
    /\ effectPending' = ~AllSameObject(pendingUpdates, galleryImages)
    /\ lastPush' = Null
    /\ editStack' = SelectSeq(editStack, LAMBDA img : img.id \in IdsOf(galleryImages'))
    /\ sessionHistory' = SelectSeq(sessionHistory,
                                   LAMBDA img : img.id \in IdsOf(galleryImages'))
    /\ UNCHANGED <<view, localStorage, saveOutcome, mode, activeImage, generatedImage,
                   editStackIndex, isLoading, request, abandoned, envVars>>

\* React renders App: the queued updaters run in order; the effect is
\* scheduled when galleryImages is another object than before. Pending
\* effects are flushed before a render starts.
Render ==
    /\ pendingUpdates # <<>>
    /\ ~effectPending
    /\ galleryImages' = ApplyAll(pendingUpdates, galleryImages)
    /\ pendingUpdates' = <<>>
    /\ effectPending' = ~AllSameObject(pendingUpdates, galleryImages)
    /\ lastPush' = Null
    /\ UNCHANGED <<view, localStorage, saveOutcome, studioVars, abandoned, envVars>>

\* useEffect(() => { ... saveToLocalStorage(); }, [galleryImages])
RunSaveEffect(faults) ==
    /\ effectPending
    /\ \E faultAt \in faults \cap 0..Len(galleryImages) :
          LET r == SaveToLocalStorage(galleryImages, localStorage, faultAt)
          IN  /\ localStorage' = r.item
              /\ pendingUpdates' = IF r.update = Null THEN pendingUpdates
                                   ELSE Append(pendingUpdates, Val(r.update))
              /\ saveOutcome' = r.outcome
    /\ effectPending' = FALSE
    /\ UNCHANGED <<view, galleryImages, stateVars, abandoned, envVars>>

\* setActiveView(item.id): <div key={view}> remounts the view, so the state
\* of ImageStudio starts over; a handler awaiting the backend keeps running.
SetView(v) ==
    /\ Idle
    /\ v # view
    /\ request # Null => Len(abandoned) < MaxAbandoned
    /\ view' = v
    /\ abandoned' = IF request = Null THEN abandoned ELSE Append(abandoned, Val(request))
    /\ mode' = "generate"
    /\ activeImage' = Null
    /\ generatedImage' = Null
    /\ editStack' = <<>>
    /\ editStackIndex' = -1
    /\ sessionHistory' = <<>>
    /\ isLoading' = FALSE
    /\ request' = Null
    /\ UNCHANGED <<galleryImages, pendingUpdates, effectPending, localStorage,
                   saveOutcome, lastPush, envVars>>

\* An update queued by a click: React renders it before any other task
\* runs, flushing the pending effect first.
ClickPending == \E i \in 1..Len(pendingUpdates) : pendingUpdates[i].op = "delete"

\* Gallery.handleDelete, confirmed by the user; the effect of the last
\* render may not have run yet.
HandleDelete(imageId) ==
    /\ view = "gallery"
    /\ pendingUpdates = <<>>
    /\ imageId \in IdsOf(galleryImages)
    /\ pendingUpdates' = Append(pendingUpdates, DeleteUpdate(imageId))
    /\ UNCHANGED <<view, galleryImages, effectPending, localStorage, saveOutcome,
                   stateVars, abandoned, envVars>>

\* ---------------------------------------------------- ImageStudio actions
ResetOutputs ==
    /\ generatedImage' = Null
    /\ editStack' = <<>>
    /\ editStackIndex' = -1

\* A mode button: setMode(key); resetOutputs()
SetMode(key) ==
    /\ view = "studio"
    /\ Idle
    /\ mode' = key
    /\ ResetOutputs
    /\ UNCHANGED <<appVars, activeImage, sessionHistory, isLoading, request,
                   lastPush, abandoned, envVars>>

\* handleNewFiles('base'): the user uploads a file.
HandleNewFiles ==
    /\ view = "studio"
    /\ Idle
    /\ activeImage' = IF activeImage = Null THEN Some(UserFile) ELSE activeImage
    /\ ResetOutputs
    /\ UNCHANGED <<appVars, mode, sessionHistory, isLoading, request, lastPush, abandoned, envVars>>

\* UploadedFilesTray onRemove of the active, only file.
RemoveInput ==
    /\ view = "studio"
    /\ Idle
    /\ activeImage # Null
    /\ activeImage' = Null
    /\ ResetOutputs
    /\ UNCHANGED <<appVars, mode, sessionHistory, isLoading, request, lastPush, abandoned, envVars>>

\* A dispatch that does not mark the studio as loading.
StartRequest_NeverLoading(c) ==
    /\ view = "studio"
    /\ Idle
    /\ ~isLoading
    /\ isLoading' = FALSE
    /\ request' = Some(c)
    /\ UNCHANGED <<appVars, mode, activeImage, generatedImage, editStack,
                   editStackIndex, sessionHistory, lastPush, abandoned, envVars>>

\* runAI(handler) up to the handler's await: setIsLoading(true) and the
\* request to the backend, holding the closure c.
StartRequest(c) ==
    /\ view = "studio"
    /\ Idle
    /\ ~isLoading
    /\ isLoading' = TRUE
    /\ request' = Some(c)
    /\ UNCHANGED <<appVars, mode, activeImage, generatedImage, editStack,
                   editStackIndex, sessionHistory, lastPush, abandoned, envVars>>

HandleGenerate ==
    /\ mode = "generate"
    /\ StartRequest(Closure("generate", UrlOf(activeImage), SrcOf(generatedImage),
                            editStackIndex))

\* handleEdit and the other handlers built on singleImageAction
SingleImageAction ==
    /\ mode = "edit"
    /\ activeImage # Null
    /\ StartRequest(Closure("single", UrlOf(activeImage), SrcOf(generatedImage),
                            editStackIndex))

HandleGenerateVariation ==
    /\ generatedImage # Null
    /\ StartRequest(Closure("variation", SrcOf(generatedImage), SrcOf(generatedImage),
                            editStackIndex))

HandleUpscaleGeneratedImage ==
    /\ generatedImage # Null
    /\ StartRequest(Closure("upscaleGenerated", SrcOf(generatedImage),
                            SrcOf(generatedImage), editStackIndex))

\* A processNewImage that records in the session history the images that
\* start a chain only.
ProcessNewImage_RecordsFreshOnly(image, isFreshChain, index) ==
    /\ generatedImage' = Some(image)
    /\ editStack' = PushStack(editStack, index, image, isFreshChain)
    /\ editStackIndex' = PushIndex(editStackIndex, isFreshChain)
    /\ sessionHistory' = IF isFreshChain THEN <<image>> \o sessionHistory
                         ELSE sessionHistory
    /\ pendingUpdates' = Append(pendingUpdates, AddUpdate(image))

\* processNewImage(image, isFreshChain) of the render with editStackIndex = index
ProcessNewImage(image, isFreshChain, index) ==
    /\ generatedImage' = Some(image)
    /\ editStack' = PushStack(editStack, index, image, isFreshChain)
    /\ editStackIndex' = PushIndex(editStackIndex, isFreshChain)
    /\ sessionHistory' = <<image>> \o sessionHistory
    /\ pendingUpdates' = Append(pendingUpdates, AddUpdate(image))

\* The backend answers the mounted ImageStudio with an image; the handler
\* resumes and runAI's finally clears isLoading.
ResponseArrives(lens, ticks) ==
    /\ request # Null
    /\ ~ClickPending
    /\ produced < MaxImages
    /\ \E len \in lens, id \in {now + t : t \in ticks} :
          LET c == Val(request)
              image == ResponseImage(c, id, Base64(produced + 1, len), MimeOf(c))
          IN  /\ ProcessNewImage(image, IsFreshChain(c), c.editStackIndex)
              /\ lastPush' = Some([closure |-> c, isFreshChain |-> IsFreshChain(c),
                                   image |-> image, prevStack |-> editStack,
                                   prevIndex |-> editStackIndex])
              /\ now' = id
    /\ produced' = produced + 1
    /\ isLoading' = FALSE
    /\ request' = Null
    /\ UNCHANGED <<view, galleryImages, effectPending, localStorage, saveOutcome,
                   mode, activeImage, abandoned>>

\* The backend fails or returns no image: runAI catches, sets the error.
RequestFails ==
    /\ request # Null
    /\ isLoading' = FALSE
    /\ request' = Null
    /\ UNCHANGED <<appVars, mode, activeImage, generatedImage, editStack,
                   editStackIndex, sessionHistory, lastPush, abandoned, envVars>>

\* An answer to an unmounted ImageStudio that is thrown away.
AbandonedResponseArrives_Dropped(lens, ticks) ==
    /\ produced < MaxImages
    /\ ~ClickPending
    /\ \E i \in 1..Len(abandoned), id \in {now + t : t \in ticks} :
          /\ abandoned' = Remove(abandoned, i)
          /\ now' = id
    /\ produced' = produced + 1
    /\ UNCHANGED <<view, galleryImages, pendingUpdates, effectPending, localStorage,
                   saveOutcome, stateVars>>

\* The backend answers a handler whose ImageStudio is unmounted: its state
\* setters do nothing, addImageToGallery (App's) still runs.
AbandonedResponseArrives(lens, ticks) ==
    /\ produced < MaxImages
    /\ ~ClickPending
    /\ \E i \in 1..Len(abandoned), len \in lens, id \in {now + t : t \in ticks} :
          /\ pendingUpdates' = Append(pendingUpdates,
                 AddUpdate(ResponseImage(abandoned[i], id, Base64(produced + 1, len),
                                         MimeOf(abandoned[i]))))
          /\ abandoned' = Remove(abandoned, i)
          /\ now' = id
    /\ produced' = produced + 1
    /\ UNCHANGED <<view, galleryImages, effectPending, localStorage, saveOutcome,
                   stateVars>>

AbandonedRequestFails ==
    /\ \E i \in 1..Len(abandoned) : abandoned' = Remove(abandoned, i)
    /\ UNCHANGED <<appVars, stateVars, envVars>>

\* The buttons under the displayed image are rendered when
\* generatedImage && !isLoading.
ToolbarShown == view = "studio" /\ Idle /\ generatedImage # Null /\ ~isLoading

\* A "Use as Input" that empties the chain and leaves its cursor.
HandleUseAsInput_KeepsCursor ==
    /\ ToolbarShown
    /\ activeImage' = Some(FileOf(Val(generatedImage)))
    /\ generatedImage' = Null
    /\ editStack' = <<>>
    /\ UNCHANGED <<appVars, mode, editStackIndex, sessionHistory, isLoading, request,
                   lastPush, abandoned, envVars>>

\* A "Use as Input" that leaves the displayed image and the chain in place.
HandleUseAsInput_KeepsChain ==
    /\ ToolbarShown
    /\ activeImage' = Some(FileOf(Val(generatedImage)))
    /\ UNCHANGED <<appVars, mode, generatedImage, editStack, editStackIndex,
                   sessionHistory, isLoading, request, lastPush, abandoned, envVars>>

HandleUseAsInput ==
    /\ ToolbarShown
    /\ activeImage' = Some(FileOf(Val(generatedImage)))
    /\ ResetOutputs
    /\ UNCHANGED <<appVars, mode, sessionHistory, isLoading, request, lastPush, abandoned, envVars>>

\* An undo that also drops the images after the cursor.
HandleUndo_ClearsRedo ==
    /\ ToolbarShown
    /\ IF editStackIndex > 0
       THEN /\ generatedImage' = Some(editStack[(editStackIndex - 1) + 1])
            /\ editStackIndex' = editStackIndex - 1
            /\ editStack' = SubSeq(editStack, 1, editStackIndex)
       ELSE UNCHANGED <<generatedImage, editStackIndex, editStack>>
    /\ UNCHANGED <<appVars, mode, activeImage, sessionHistory, isLoading,
                   request, lastPush, abandoned, envVars>>

\* handleUndo and handleRedo with their own guards (the buttons are also
\* disabled at the ends of the chain): at an end they do nothing.
HandleUndo ==
    /\ ToolbarShown
    /\ IF editStackIndex > 0
       THEN /\ generatedImage' = Some(editStack[(editStackIndex - 1) + 1])
            /\ editStackIndex' = editStackIndex - 1
       ELSE UNCHANGED <<generatedImage, editStackIndex>>
    /\ UNCHANGED <<appVars, mode, activeImage, editStack, sessionHistory, isLoading,
                   request, lastPush, abandoned, envVars>>

HandleRedo ==
    /\ ToolbarShown
    /\ IF editStackIndex < Len(editStack) - 1
       THEN /\ generatedImage' = Some(editStack[(editStackIndex + 1) + 1])
            /\ editStackIndex' = editStackIndex + 1
       ELSE UNCHANGED <<generatedImage, editStackIndex>>
    /\ UNCHANGED <<appVars, mode, activeImage, editStack, sessionHistory, isLoading,
                   request, lastPush, abandoned, envVars>>

\* A re-display that starts a chain with the image it shows.
ShowHistoryItem_StartsChain(i) ==
    /\ view = "studio"
    /\ Idle
    /\ i \in 1..Len(sessionHistory)
    /\ generatedImage' = Some(sessionHistory[i])
    /\ editStack' = <<sessionHistory[i]>>
    /\ editStackIndex' = 0
    /\ UNCHANGED <<appVars, mode, activeImage,
                   sessionHistory, isLoading, request, lastPush, abandoned, envVars>>

\* Session history panel: onClick={() => setGeneratedImage(item)}
ShowHistoryItem(i) ==
    /\ view = "studio"
    /\ Idle
    /\ i \in 1..Len(sessionHistory)
    /\ generatedImage' = Some(sessionHistory[i])
    /\ UNCHANGED <<appVars, mode, activeImage, editStack, editStackIndex,
                   sessionHistory, isLoading, request, lastPush, abandoned, envVars>>

\* A clear that empties the chain and the display with the history.
ClearSessionHistory_ClearsChain ==
    /\ view = "studio"
    /\ Idle
    /\ sessionHistory # <<>>
    /\ sessionHistory' = <<>>
    /\ ResetOutputs
    /\ UNCHANGED <<appVars, mode, activeImage, isLoading, request, lastPush,
                   abandoned, envVars>>

\* Session history panel: setSessionHistory([]) after window.confirm
ClearSessionHistory ==
    /\ view = "studio"
    /\ Idle
    /\ sessionHistory # <<>>
    /\ sessionHistory' = <<>>
    /\ UNCHANGED <<appVars, mode, activeImage, generatedImage, editStack,
                   editStackIndex, isLoading, request, lastPush, abandoned, envVars>>

\* ------------------------------------------------------- specifications
\* The environment: the write of a save cycle that fails for a reason other
\* than capacity (0: none), the size of a response, and whether the clock
\* has advanced since its last reading (an id is new Date().toISOString(),
\* a wall-clock reading with millisecond resolution).
AnyFault == 0..(MaxImages + 2)
NoFault == {0}
AnyTick == {0, 1}
ClockAdvances == {1}
SmallLens == {2}
TinyLens == {1}

\* Every action, every input.
Next ==
    \/ Render
    \/ RunSaveEffect(AnyFault)
    \/ \E v \in Views : SetView(v)
    \/ \E imageId \in IdsOf(galleryImages) : HandleDelete(imageId)
    \/ \E key \in Modes : SetMode(key)
    \/ HandleNewFiles
    \/ RemoveInput
    \/ HandleGenerate
    \/ SingleImageAction
    \/ HandleGenerateVariation
    \/ HandleUpscaleGeneratedImage
    \/ ResponseArrives(PayloadLens, AnyTick)
    \/ RequestFails
    \/ AbandonedResponseArrives(PayloadLens, AnyTick)
    \/ AbandonedRequestFails
    \/ HandleUseAsInput
    \/ HandleUndo
    \/ HandleRedo
    \/ \E i \in 1..Len(sessionHistory) : ShowHistoryItem(i)
    \/ ClearSessionHistory

Spec == Init /\ [][Next]_vars

\* The gallery and its store: the user generates images from text, moves
\* between the views and deletes images in the gallery; responses have any
\* size, any write can fail, the clock advances between two responses.
NextApp ==
    \/ Render
    \/ RunSaveEffect(AnyFault)
    \/ \E v \in Views : SetView(v)
    \/ \E imageId \in IdsOf(galleryImages) : HandleDelete(imageId)
    \/ HandleGenerate
    \/ ResponseArrives(PayloadLens, ClockAdvances)
    \/ RequestFails
    \/ AbandonedResponseArrives(PayloadLens, ClockAdvances)
    \/ AbandonedRequestFails

SpecApp == Init /\ [][NextApp]_vars

\* The same, with React's scheduling: a queued update is rendered and a
\* scheduled effect is run, whatever else happens.
SpecAppLive ==
    /\ Init
    /\ [][NextApp]_vars
    /\ WF_vars(Render)
    /\ WF_vars(RunSaveEffect(AnyFault))

\* The gallery and its store when two responses can arrive within the same
\* millisecond, or the clock be set back to a reading it gave before: ids
\* can repeat. Writes fail for lack of capacity only.
NextClock ==
    \/ Render
    \/ RunSaveEffect(NoFault)
    \/ \E v \in Views : SetView(v)
    \/ \E imageId \in IdsOf(galleryImages) : HandleDelete(imageId)
    \/ HandleGenerate
    \/ ResponseArrives(PayloadLens, AnyTick)
    \/ RequestFails
    \/ AbandonedResponseArrives(PayloadLens, AnyTick)
    \/ AbandonedRequestFails

SpecClock == Init /\ [][NextClock]_vars

\* The edit chain under every user action of ImageStudio: the user stays in
\* the studio, every response is small and every write succeeds.
NextStudio ==
    \/ Render
    \/ RunSaveEffect(NoFault)
    \/ \E key \in Modes : SetMode(key)
    \/ HandleNewFiles
    \/ RemoveInput
    \/ HandleGenerate
    \/ SingleImageAction
    \/ HandleGenerateVariation
    \/ HandleUpscaleGeneratedImage
    \/ ResponseArrives(SmallLens, ClockAdvances)
    \/ RequestFails
    \/ HandleUseAsInput
    \/ HandleUndo
    \/ HandleRedo
    \/ \E i \in 1..Len(sessionHistory) : ShowHistoryItem(i)
    \/ ClearSessionHistory

InitStudio == Init /\ localStorage = NullItem

SpecStudio == InitStudio /\ [][NextStudio]_vars

\* A session of ImageStudio over an empty store whose images all fit the
\* store together: the user generates, edits, makes variations, takes the
\* displayed image as input, undoes, redoes and browses the history.
NextSession ==
    \/ Render
    \/ RunSaveEffect(NoFault)
    \/ \E key \in Modes : SetMode(key)
    \/ HandleGenerate
    \/ SingleImageAction
    \/ HandleGenerateVariation
    \/ ResponseArrives(TinyLens, ClockAdvances)
    \/ HandleUseAsInput
    \/ HandleUndo
    \/ HandleRedo
    \/ \E i \in 1..Len(sessionHistory) : ShowHistoryItem(i)

SpecSession == InitStudio /\ [][NextSession]_vars

\* ------------------------------------------------------------- properties
\* Steps of the save cycle and of the render of the queued updates.
SaveCycleStep == effectPending /\ ~effectPending'
RenderStep == pendingUpdates # <<>> /\ pendingUpdates' = <<>>
LastUpdate(updates) == updates[Len(updates)]

\* The records fit the budget of the store.
Fits(records) == SumLens(records) <= Budget

\* The longest newest-first prefix of the records that fits.
NewestPrefixThatFits(records) ==
    LET k == CHOOSE k \in 0..Len(records) :
                 /\ Fits(SubSeq(records, 1, k))
                 /\ \A j \in 0..Len(records) : Fits(SubSeq(records, 1, j)) => j <= k
    IN  SubSeq(records, 1, k)

\* C1 (FIFO eviction): a save cycle that writes leaves in the store exactly
\* the longest newest-first prefix of the list it was handed that fits the
\* budget; when the list does not fit but its newest record does, the cycle
\* evicts (unless a write fails for another reason) and the prefix is not
\* empty.
C1_FifoEviction ==
    [][SaveCycleStep =>
          LET records == SavableImages(galleryImages)
          IN  /\ saveOutcome' \in {"written", "evicted"} =>
                    /\ localStorage' = JSONStringify(NewestPrefixThatFits(records))
                    /\ NewestPrefixThatFits(records) # <<>>
              /\ saveOutcome' = "evicted" <=>
                    /\ saveOutcome' # "aborted"
                    /\ ~Fits(records)
                    /\ Fits(SubSeq(records, 1, 1))
      ]_vars

\* C1 witness: a cycle has evicted the two oldest of three records at once.
C1_Witness ==
    /\ saveOutcome = "evicted"
    /\ pendingUpdates # <<>>
    /\ LastUpdate(pendingUpdates).op = "keep"
    /\ Len(galleryImages) = 3
    /\ localStorage = JSONStringify(SubSeq(SavableImages(galleryImages), 1, 1))

\* C2 (total failure leaves the store untouched): a save cycle handed a
\* gallery whose newest record alone exceeds the budget ends in total
\* failure, or aborts on another error, and the store holds exactly what it
\* held before the cycle; a cycle ends in total failure in that case only.
C2_TotalFailureKeepsStore ==
    [][SaveCycleStep =>
          LET records == SavableImages(galleryImages)
              tooLarge == records # <<>> /\ ~Fits(SubSeq(records, 1, 1))
          IN  /\ tooLarge => /\ saveOutcome' \in {"totalFailure", "aborted"}
                              /\ localStorage' = localStorage
              /\ saveOutcome' = "totalFailure" => tooLarge
      ]_vars

\* C2 witness: a cycle has ended in total failure over a store that held
\* two records, which it still holds.
C2_Witness ==
    /\ saveOutcome = "totalFailure"
    /\ pendingUpdates # <<>>
    /\ LastUpdate(pendingUpdates).op = "set"
    /\ ~Fits(SubSeq(SavableImages(galleryImages), 1, 1))
    /\ localStorage = JSONStringify(<<OldRecord(0), OldRecord(-1)>>)

\* C3 (total-failure rollback): a cycle that ends in total failure queues
\* one update of the gallery, and the render of that update leaves in memory
\* exactly the list reconstructed from what the store held before the cycle
\* (the empty list if it held nothing), without the image just inserted.
C3_TotalFailureRollback ==
    [][/\ (SaveCycleStep /\ saveOutcome' = "totalFailure") =>
              /\ Len(pendingUpdates') = Len(pendingUpdates) + 1
              /\ LastUpdate(pendingUpdates').op = "set"
       /\ (RenderStep /\ saveOutcome = "totalFailure"
                      /\ LastUpdate(pendingUpdates).op = "set") =>
              /\ galleryImages' = LoadGallery(localStorage)
              /\ galleryImages[1].id \notin IdsOf(galleryImages')
      ]_vars

\* C3 witness: the rollback has been rendered; the gallery is the two
\* records of the store and the image on display is not in it.
C3_Witness ==
    /\ saveOutcome = "totalFailure"
    /\ pendingUpdates = <<>>
    /\ effectPending
    /\ generatedImage # Null
    /\ Val(generatedImage).id \notin IdsOf(galleryImages)
    /\ Len(galleryImages) = 2
    /\ galleryImages = LoadGallery(localStorage)

\* C4 (idempotent insert): the render of one queued insert leaves the
\* gallery as it was when an image of that id is in it, and otherwise puts
\* the image at the front of the gallery, the rest unchanged.
C4_IdempotentInsert ==
    [][(RenderStep /\ Len(pendingUpdates) = 1 /\ pendingUpdates[1].op = "add") =>
          LET image == pendingUpdates[1].images[1]
          IN  IF image.id \in IdsOf(galleryImages)
              THEN galleryImages' = galleryImages
              ELSE /\ Len(galleryImages') = Len(galleryImages) + 1
                   /\ galleryImages'[1] = image
                   /\ Tail(galleryImages') = galleryImages
      ]_vars

\* C4 witness: the insert of the image on display has been rendered and the
\* gallery holds, under its id, another image.
C4_Witness ==
    /\ Idle
    /\ lastPush = Null
    /\ generatedImage # Null
    /\ \E i \in 1..Len(galleryImages) :
          /\ galleryImages[i].id = Val(generatedImage).id
          /\ galleryImages[i].base64 # Val(generatedImage).base64

\* The processNewImage call that React has yet to render.
Pushed == lastPush # Null
Push == Val(lastPush)

\* The part of the chain up to the cursor, with the image after it.
ChainUpToCursorWith(stack, cursor, image) == SubSeq(stack, 1, cursor + 1) \o <<image>>

\* C5 (chain truncation on continuation): a continuation D pushed on a chain
\* with cursor c leaves the chain chain[0..c] followed by D, the images
\* after c discarded, the cursor on D (new length - 1) and D displayed.
C5_ChainTruncation ==
    (Pushed /\ ~Push.isFreshChain) =>
        /\ editStack = ChainUpToCursorWith(Push.prevStack, Push.prevIndex, Push.image)
        /\ editStackIndex = Len(editStack) - 1
        /\ generatedImage = Some(Push.image)

\* C5 witness: a continuation has been pushed on a chain whose cursor had
\* an image after it.
C5_Witness ==
    /\ Pushed
    /\ ~Push.isFreshChain
    /\ Push.prevIndex >= 0
    /\ Push.prevIndex < Len(Push.prevStack) - 1
    /\ Len(editStack) = Len(Push.prevStack)

\* C6 (fresh reset): a fresh image X leaves the chain [X] with the cursor at
\* 0 and X displayed, whatever the chain was.
C6_FreshReset ==
    (Pushed /\ Push.isFreshChain) =>
        /\ editStack = <<Push.image>>
        /\ editStackIndex = 0
        /\ generatedImage = Some(Push.image)

\* C6 witness: a fresh image has replaced a chain of two images.
C6_Witness ==
    /\ Pushed
    /\ Push.isFreshChain
    /\ Len(Push.prevStack) = 2
    /\ editStack = <<Push.image>>

\* C7 (undo/redo are pure cursor moves): undo decrements the cursor when it
\* is above 0, redo increments it when it is below length - 1, the image at
\* the new cursor is displayed, and otherwise they do nothing; neither
\* changes the chain, the gallery, the store or the session history, nor
\* queues an update of the gallery or schedules a save cycle.
C7_UndoRedoPureCursorMoves ==
    [][(HandleUndo \/ HandleRedo) =>
          /\ UNCHANGED <<editStack, galleryImages, localStorage, sessionHistory,
                         pendingUpdates, effectPending>>
          /\ HandleUndo => editStackIndex' =
                 IF editStackIndex > 0 THEN editStackIndex - 1 ELSE editStackIndex
          /\ HandleRedo => editStackIndex' =
                 IF editStackIndex < Len(editStack) - 1 THEN editStackIndex + 1
                 ELSE editStackIndex
          /\ IF editStackIndex' # editStackIndex
             THEN generatedImage' = Some(editStack[editStackIndex' + 1])
             ELSE generatedImage' = generatedImage
      ]_vars

\* C7 witness: two undos have taken the cursor from the end of a chain of
\* three images to its start, where undo does nothing.
C7_Witness ==
    /\ ToolbarShown
    /\ Len(editStack) = 3
    /\ editStackIndex = 0
    /\ generatedImage = Some(editStack[1])

\* C8 (cursor invariant): in every reachable state the cursor is -1 and
\* the chain empty, or the chain is not empty and 0 <= cursor < length.
C8_CursorInvariant ==
    IF editStack = <<>> THEN editStackIndex = -1
    ELSE 0 <= editStackIndex /\ editStackIndex < Len(editStack)

\* C8 witness: the result of a continuation started at cursor 0 or above
\* has arrived after a reset emptied the chain.
C8_Witness ==
    /\ Pushed
    /\ ~Push.isFreshChain
    /\ Push.closure.editStackIndex >= 0
    /\ Push.prevStack = <<>>
    /\ editStackIndex = 0

\* The result comes from a handler that classifies by its input.
ClassifiedByInput == Pushed /\ Push.closure.handler \in {"generate", "single"}

\* C9 as stated: a result is a continuation iff its input is the image at
\* the cursor of the chain, and fresh otherwise.
C9_ContinuationIffInputAtCursor ==
    ClassifiedByInput =>
        (~Push.isFreshChain <=>
            /\ Push.prevStack # <<>>
            /\ Push.closure.inputUrl = Push.prevStack[Push.prevIndex + 1].src)

\* C9 (classification), amended: a result is a continuation iff, when its
\* handler was started, an image was displayed and the input had the url of
\* that image; it is fresh when nothing was displayed, when the input was
\* another image than the one displayed, or when there was no input; the
\* chain is extended in the first case and replaced in the second.
C9_ContinuationIffInputDisplayed ==
    ClassifiedByInput =>
        LET c == Push.closure
            continuation == /\ c.inputUrl # NoUrl
                            /\ c.generatedSrc # NoUrl
                            /\ c.inputUrl = c.generatedSrc
        IN  /\ Push.isFreshChain <=> ~continuation
            /\ editStack =
                  IF continuation
                  THEN ChainUpToCursorWith(Push.prevStack, Push.prevIndex, Push.image)
                  ELSE <<Push.image>>

\* C9 witness: a result whose input was the displayed image, re-displayed
\* from the session history and not the image at the cursor, has extended
\* the chain.
C9_Witness ==
    /\ ClassifiedByInput
    /\ ~Push.isFreshChain
    /\ Push.prevStack # <<>>
    /\ Push.closure.inputUrl # Push.prevStack[Push.prevIndex + 1].src
    /\ Len(editStack) = Len(Push.prevStack) + 1

\* C10 (variation and upscale of the displayed image): their result is a
\* continuation whatever the input: it is attached after the cursor the
\* chain has when it arrives, and displayed.
C10_VariationUpscaleContinue ==
    (Pushed /\ Push.closure.handler \in {"variation", "upscaleGenerated"}) =>
        /\ ~Push.isFreshChain
        /\ editStack = ChainUpToCursorWith(Push.prevStack, Push.prevIndex, Push.image)
        /\ editStackIndex = Push.prevIndex + 1
        /\ generatedImage = Some(Push.image)

\* C10 witness: the upscale of an image re-displayed from the session
\* history, not the image at the cursor, has been attached after the cursor.
C10_Witness ==
    /\ Pushed
    /\ Push.closure.handler = "upscaleGenerated"
    /\ Push.prevStack # <<>>
    /\ Push.closure.inputUrl # Push.prevStack[Push.prevIndex + 1].src
    /\ editStack = Push.prevStack \o <<Push.image>>

\* The result comes from a generation from text alone.
FromScratch == Pushed /\ Push.closure.handler = "generate" /\ Push.closure.inputUrl = NoUrl

\* The result comes from an edit or a generation fed an image of the session.
EditOfSessionImage ==
    /\ ClassifiedByInput
    /\ \E i \in 2..Len(sessionHistory) : sessionHistory[i].src = Push.closure.inputUrl

\* C11 as stated, its second step: an edit whose input is a1, generated from
\* scratch as the first image of the session, is a continuation and gives
\* the chain [a1, a2] with the cursor at 1.
C11_EditOfA1ContinuesChain ==
    (EditOfSessionImage /\ Len(sessionHistory) = 2
        /\ sessionHistory[2].originalSrc = NoUrl
        /\ sessionHistory[2].src = Push.closure.inputUrl) =>
        /\ ~Push.isFreshChain
        /\ editStack = <<sessionHistory[2], Push.image>>
        /\ editStackIndex = 1

\* C11 (end-to-end scenario), amended: in a session over an empty store
\* whose images fit it, a generation from scratch gives the chain [a] with
\* the cursor at 0, whatever the chain was; a variation of a1 on the chain
\* [a1] gives [a1, a2] with the cursor at 1; the result of an edit fed an
\* image of the session never joins a chain that holds its input, and with
\* nothing displayed when it was started it gives a chain of its own; every
\* result is put first in the session history; once rendered and saved, the
\* gallery is the session history.
C11_Scenario ==
    /\ FromScratch =>
          /\ editStack = <<Push.image>>
          /\ editStackIndex = 0
    /\ (Pushed /\ Push.closure.handler = "variation" /\ Len(Push.prevStack) = 1) =>
          /\ editStack = <<Push.prevStack[1], Push.image>>
          /\ editStackIndex = 1
    /\ EditOfSessionImage =>
          /\ \A i \in 1..Len(editStack) : editStack[i].src # Push.closure.inputUrl
          /\ Push.closure.generatedSrc = NoUrl =>
                editStack = <<Push.image>> /\ editStackIndex = 0
    /\ Pushed => sessionHistory[1] = Push.image /\ generatedImage = Some(Push.image)
    /\ Idle => galleryImages = sessionHistory

\* C11 witness: a1 from scratch, a2 a variation of it, an undo back to a1,
\* then a3 from scratch: the chain [a1, a2] with the cursor at 0 has become
\* [a3], the session history is [a3, a2, a1], the gallery [a2, a1] with the
\* insert of a3 queued.
C11_Witness ==
    /\ FromScratch
    /\ Len(sessionHistory) = 3
    /\ sessionHistory[3].originalSrc = NoUrl
    /\ sessionHistory[2].originalSrc = sessionHistory[3].src
    /\ Push.prevStack = <<sessionHistory[3], sessionHistory[2]>>
    /\ Push.prevIndex = 0
    /\ editStack = <<sessionHistory[1]>>
    /\ editStackIndex = 0
    /\ galleryImages = Tail(sessionHistory)
    /\ pendingUpdates = <<AddUpdate(sessionHistory[1])>>

\* The serial of the response an image was built from.
SerialOf(image) == image.base64[1]

ImagesHeld ==
    {galleryImages[i] : i \in 1..Len(galleryImages)}
        \cup {sessionHistory[i] : i \in 1..Len(sessionHistory)}
        \cup {editStack[i] : i \in 1..Len(editStack)}
        \cup {generatedImage[i] : i \in 1..Len(generatedImage)}

Unset(image) == [image EXCEPT !.originalSrc = NoUrl]

\* C13 (codec round trip): for every image the program holds, the stored
\* record has neither src nor originalSrc, and reconstructing it gives back
\* the same src, built from mimeType and base64 alone, no originalSrc, and
\* the same id, base64 and mimeType; so loading what a save of the gallery
\* writes gives the gallery with originalSrc unset.
C13_CodecRoundTrip ==
    /\ \A a \in ImagesHeld :
          /\ DOMAIN Savable(a) = DOMAIN a \ {"src", "originalSrc"}
          /\ Reconstruct(Savable(a)).src = a.src
          /\ Reconstruct(Savable(a)).src = DataUri(a.mimeType, a.base64)
          /\ Reconstruct(Savable(a)) = Unset(a)
    /\ LoadGallery(JSONStringify(SavableImages(galleryImages)))
          = [i \in 1..Len(galleryImages) |-> Unset(galleryImages[i])]

\* The gallery holds a JPEG from a text prompt and a PNG made from it that
\* carries its comparison image, and both are in the store.
C13_Witness ==
    /\ Idle
    /\ Len(galleryImages) = 2
    /\ galleryImages[1].mimeType = "image/png"
    /\ galleryImages[1].originalSrc = galleryImages[2].src
    /\ galleryImages[2].mimeType = "image/jpeg"
    /\ localStorage = JSONStringify(SavableImages(galleryImages))

\* C14 (reconcile after eviction): the render that follows a save cycle
\* which wrote after evicting applies the filter the cycle queued: the ids
\* it keeps are those of the records in the store; no image of the gallery
\* whose record was evicted is in the gallery afterwards; and when the
\* filter is all that is rendered, the gallery afterwards is exactly the
\* images whose records are in the store, in the order they had, record
\* for record.
C14_ReconcileAfterEviction ==
    [][RenderStep =>
          \A k \in 1..Len(pendingUpdates) :
              pendingUpdates[k].op = "keep" =>
                  LET persisted == IdsOf(JSONParse(localStorage))
                  IN  /\ saveOutcome = "evicted"
                      /\ pendingUpdates[k].ids = persisted
                      /\ \E i \in 1..Len(galleryImages) : galleryImages[i].id \notin persisted
                      /\ \A i \in 1..Len(galleryImages) :
                            galleryImages[i].id \notin persisted
                                => galleryImages[i].id \notin IdsOf(galleryImages')
                      /\ Len(pendingUpdates) = 1 =>
                            /\ galleryImages' = SelectSeq(galleryImages,
                                                    LAMBDA img : img.id \in persisted)
                            /\ SavableImages(galleryImages') = JSONParse(localStorage)]_vars

\* Two results were added, the store had room for the newer one only, and
\* the gallery has been cut down to it.
C14_Witness ==
    /\ saveOutcome = "evicted"
    /\ pendingUpdates = <<>>
    /\ effectPending
    /\ Len(sessionHistory) = 2
    /\ galleryImages = <<sessionHistory[1]>>
    /\ JSONParse(localStorage) = SavableImages(galleryImages)

\* The image a delete update removes, and what the save cycle a render
\* triggers leaves in the store when every write fails for lack of capacity
\* only.
DeletedId(u) == CHOOSE imageId \in u.ids : TRUE
StoreAfterSave(images) == JSONParse(SaveToLocalStorage(images, localStorage, 0).item)

\* C15 (explicit deletion always persists): the render of a deletion takes
\* the image out of the gallery and triggers a save cycle, after which the
\* store has no record of that id and the other records it had are there
\* in the same order (the store is cleared when nothing is left).
C15_DeletionPersists ==
    [][RenderStep =>
          \A k \in 1..Len(pendingUpdates) :
              pendingUpdates[k].op = "delete" =>
                  LET imageId == DeletedId(pendingUpdates[k])
                      before == JSONParse(localStorage)
                      after == StoreAfterSave(galleryImages')
                  IN  /\ imageId \notin IdsOf(galleryImages')
                      /\ effectPending'
                      /\ imageId \notin IdsOf(after)
                      /\ SelectSeq(after, LAMBDA rec : rec.id \in IdsOf(before))
                            = SelectSeq(before, LAMBDA rec : rec.id # imageId)
                      /\ galleryImages' = <<>> =>
                            ~Truthy(SaveToLocalStorage(galleryImages', localStorage, 0).item)]_vars

\* The ids that leave the gallery in memory in a step, and the queued
\* updates that take an id out: the user's deletion of it, the filter of a
\* save cycle that evicted its record, the revert of a save cycle that could
\* write nothing.
IdsRemoved == IdsOf(galleryImages) \ IdsOf(galleryImages')
DeletedByUser(imageId) ==
    \E k \in 1..Len(pendingUpdates) :
        pendingUpdates[k].op = "delete" /\ imageId \in pendingUpdates[k].ids
PrunedAfterEviction(imageId) ==
    \E k \in 1..Len(pendingUpdates) :
        pendingUpdates[k].op = "keep" /\ imageId \notin pendingUpdates[k].ids
Reverted(imageId) ==
    \E k \in 1..Len(pendingUpdates) :
        pendingUpdates[k].op = "set" /\ imageId \notin IdsOf(pendingUpdates[k].images)

\* C16 as stated: an image leaves the gallery in memory only when the user
\* deletes it.
C16_RemovedOnlyByDeletion ==
    [][\A imageId \in IdsRemoved : RenderStep /\ DeletedByUser(imageId)]_vars

\* C16 (in-memory retention), amended: an image leaves the gallery in
\* memory only at a render, and only when the user deleted it, or a save
\* cycle evicted its record from the store and queued the filter, or a save
\* cycle could write nothing and queued the revert to the store's content.
C16_InMemoryRetention ==
    [][\A imageId \in IdsRemoved :
          /\ RenderStep
          /\ \/ DeletedByUser(imageId)
             \/ PrunedAfterEviction(imageId)
             \/ Reverted(imageId)]_vars

\* The studio has produced two images since it was mounted, so the user
\* has deleted neither, and the gallery in memory holds the newer one only.
C16_Witness ==
    /\ Idle
    /\ view = "studio"
    /\ saveOutcome = "unchanged"
    /\ Len(sessionHistory) = 2
    /\ galleryImages = <<sessionHistory[1]>>

\* The positions of the chain after the cursor (what redo can reach), and a
\* step that loses one of them: the image is no longer at its position.
RedoPositions == (editStackIndex + 2)..Len(editStack)
RedoLost ==
    \E i \in RedoPositions : i > Len(editStack') \/ editStack'[i] # editStack[i]

\* A step in which a result arrives and is pushed, and a step that empties
\* the chain and the display (resetOutputs).
PushStep == request # Null /\ request' = Null /\ lastPush' # Null
ResetStep == editStack' = <<>> /\ editStackIndex' = -1 /\ generatedImage' = Null

StoreIsProjection ==
    IF galleryImages = <<>> THEN localStorage = NullItem
    ELSE localStorage = JSONStringify(SavableImages(galleryImages))

\* C18 (memory/store consistency): when every queued update is rendered
\* and the save cycle of the last render has run, and that cycle did not
\* stop on a write error other than capacity, the store holds exactly the
\* records of the images in memory, same ids, same order.
C18_MemoryStoreConsistency ==
    (Idle /\ saveOutcome # "aborted") => StoreIsProjection

\* An image produced in this session is alone in memory and in the store
\* after an older one was evicted and the gallery reconciled.
C18_Witness ==
    /\ Idle
    /\ saveOutcome = "unchanged"
    /\ produced >= 2
    /\ Len(galleryImages) = 1
    /\ galleryImages[1].id > 0
    /\ localStorage = JSONStringify(SavableImages(galleryImages))

\* No two images of the list have the same id; the place of an id in it.
UniqueIds(images) ==
    \A i, j \in 1..Len(images) : images[i].id = images[j].id => i = j
Pos(images, imageId) == CHOOSE i \in 1..Len(images) : images[i].id = imageId

\* The ids a step leaves in the gallery and those it brings in.
IdsKept == IdsOf(galleryImages) \cap IdsOf(galleryImages')
IdsInserted == IdsOf(galleryImages') \ IdsOf(galleryImages)

\* The images that stay keep their order; an image brought in by an insert
\* stands before every image that stays, and before the images brought in
\* by the inserts queued before its own (a rollback replaces the list by
\* the stored one, in the order it was stored).
OrderKept ==
    \A a, b \in IdsKept :
        Pos(galleryImages, a) < Pos(galleryImages, b)
            => Pos(galleryImages', a) < Pos(galleryImages', b)
RolledBack == \E k \in 1..Len(pendingUpdates) : pendingUpdates[k].op = "set"
InsertedFirst ==
    /\ ~RolledBack =>
          \A n \in IdsInserted : \A a \in IdsKept :
              Pos(galleryImages', n) < Pos(galleryImages', a)
    /\ \A k, l \in 1..Len(pendingUpdates) :
          (/\ k < l
           /\ pendingUpdates[k].op = "add"
           /\ pendingUpdates[l].op = "add"
           /\ pendingUpdates[k].images[1].id \in IdsInserted
           /\ pendingUpdates[l].images[1].id \in IdsInserted
           /\ pendingUpdates[k].images[1].id # pendingUpdates[l].images[1].id)
              => Pos(galleryImages', pendingUpdates[l].images[1].id)
                     < Pos(galleryImages', pendingUpdates[k].images[1].id)

\* C19 (gallery uniqueness and order): in every state no two images of the
\* gallery in memory have the same id; every step (insert, reconcile after
\* eviction, deletion, rollback) leaves the images that stay in the order
\* they had, and an inserted image stands first, before the images that
\* were there and before those inserted before it.
C19_UniqueNewestFirst ==
    /\ [](UniqueIds(galleryImages))
    /\ [][OrderKept /\ InsertedFirst]_vars

\* The newer of the two stored images was deleted, and the result of a
\* request came in afterwards: it stands first, before the older image.
C19_Witness ==
    /\ effectPending
    /\ Len(galleryImages) = 2
    /\ galleryImages[1].id > 0
    /\ galleryImages[2] = Reconstruct(OldRecord(-1))

\* The save cycle queues the filter that cuts memory down to the store, or
\* queues nothing.
FilterQueued ==
    /\ Len(pendingUpdates') = Len(pendingUpdates) + 1
    /\ LastUpdate(pendingUpdates').op = "keep"
NothingQueued == pendingUpdates' = pendingUpdates

\* C20 (pruning only on eviction): a save cycle queues the filter exactly
\* when it wrote, after evicting, strictly fewer records than the gallery
\* holds (and at least one); a cycle that writes the whole list, finds the
\* store up to date, stops on an error other than capacity or removes the
\* key of an empty gallery queues nothing; no cycle changes the gallery in
\* memory itself; and an update that filters the gallery is rendered only
\* after such an eviction.
C20_PruningOnlyOnEviction ==
    [][/\ SaveCycleStep =>
            LET records == SavableImages(galleryImages)
                written == JSONParse(localStorage')
            IN  /\ galleryImages' = galleryImages
                /\ FilterQueued <=> saveOutcome' = "evicted"
                /\ saveOutcome' = "evicted" =>
                      /\ localStorage' = JSONStringify(written)
                      /\ 0 < Len(written)
                      /\ Len(written) < Len(galleryImages)
                      /\ written = SubSeq(records, 1, Len(written))
                      /\ LastUpdate(pendingUpdates').ids = IdsOf(written)
                /\ saveOutcome' = "written" =>
                      localStorage' = JSONStringify(records) /\ NothingQueued
                /\ saveOutcome' = "unchanged" =>
                      /\ localStorage' = localStorage
                      /\ localStorage = JSONStringify(records)
                      /\ NothingQueued
                /\ saveOutcome' = "aborted" =>
                      localStorage' = localStorage /\ NothingQueued
                /\ saveOutcome' \in {"removed", "empty"} =>
                      galleryImages = <<>> /\ NothingQueued
                /\ saveOutcome' \in {"evicted", "written", "unchanged", "aborted",
                                     "removed", "empty", "totalFailure"}
       /\ ~SaveCycleStep =>
            \A k \in 1..Len(pendingUpdates') :
                pendingUpdates'[k].op = "keep" =>
                    k <= Len(pendingUpdates) /\ pendingUpdates[k] = pendingUpdates'[k]
      ]_vars

\* A save cycle has stopped on an error other than capacity: the store
\* holds one record, the gallery two images, and nothing is queued.
C20_Witness ==
    /\ Idle
    /\ saveOutcome = "aborted"
    /\ Len(galleryImages) = 2
    /\ Len(JSONParse(localStorage)) = 1

\* The write numbered attempt of a save cycle on the records takes place:
\* the cycle has something to write and every longer prefix was refused for
\* lack of capacity.
AttemptReached(records, attempt) ==
    /\ records # <<>>
    /\ ~SameAsPersisted(records, localStorage)
    /\ attempt \in 1..Len(records)
    /\ \A j \in (Len(records) - attempt + 2)..Len(records) :
          ~Fits(SubSeq(records, 1, j))

\* C21 (non-capacity write error): a save cycle whose write fails for a
\* reason other than capacity stops at that write: it makes no further
\* attempt, queues neither the filter nor the revert, leaves the store with
\* the content it had and the gallery in memory as it is, the image just
\* inserted included.
C21_NonCapacityErrorAborts ==
    [][SaveCycleStep =>
          LET records == SavableImages(galleryImages)
          IN  /\ saveOutcome' = "aborted" =>
                    /\ localStorage' = localStorage
                    /\ NothingQueued
                    /\ galleryImages' = galleryImages
              /\ \A faultAt \in 1..Len(records) :
                    AttemptReached(records, faultAt) =>
                        LET r == SaveToLocalStorage(galleryImages, localStorage, faultAt)
                        IN  /\ r.outcome = "aborted"
                            /\ r.attempts = faultAt
                            /\ r.update = Null
                            /\ r.item = localStorage]_vars

\* The write of a gallery with a new image in front has failed for a reason
\* other than capacity: the image is in memory and not in the store.
C21_Witness ==
    /\ Idle
    /\ saveOutcome = "aborted"
    /\ galleryImages # <<>>
    /\ galleryImages[1].id > 0
    /\ galleryImages[1].id \notin IdsOf(JSONParse(localStorage))
    /\ Truthy(localStorage)

\* C22 (saving an empty gallery clears the store): a save cycle handed the
\* empty gallery removes the key when the store holds a value and does
\* nothing when it holds none; either way it calls no setItem, so that no
\* write can fail, and queues no update; no other cycle removes the key.
C22_EmptyGalleryClearsStore ==
    [][SaveCycleStep =>
          /\ galleryImages = <<>> =>
                /\ localStorage' = NullItem
                /\ saveOutcome' = IF Truthy(localStorage) THEN "removed" ELSE "empty"
                /\ NothingQueued
                /\ galleryImages' = galleryImages
                /\ \A faultAt \in AnyFault :
                      LET r == SaveToLocalStorage(galleryImages, localStorage, faultAt)
                      IN  r.attempts = 0 /\ r.item = localStorage'
          /\ galleryImages # <<>> =>
                /\ saveOutcome' \notin {"removed", "empty"}
                /\ Truthy(localStorage) => Truthy(localStorage')]_vars

\* The user has deleted, in the gallery view, the last image: the gallery
\* is empty and the key is gone from the store.
C22_Witness ==
    /\ Idle
    /\ view = "gallery"
    /\ saveOutcome = "removed"
    /\ galleryImages = <<>>
    /\ localStorage = NullItem

\* C23 (persistence outcomes never touch the working view): a save cycle,
\* however it ends, and the render of the updates it queued (the filter
\* after an eviction, the revert after a total failure) leave the chain,
\* its cursor, the displayed image, the session history, the input and the
\* mode as they are; an image that leaves the gallery in such a step is
\* still in the chain and in the session history if it was there.
C23_PersistenceKeepsWorkingView ==
    [][(SaveCycleStep \/ RenderStep) =>
          /\ UNCHANGED <<editStack, editStackIndex, generatedImage, sessionHistory,
                         activeImage, mode, isLoading>>
          /\ \A imageId \in IdsRemoved :
                /\ imageId \in IdsOf(editStack) => imageId \in IdsOf(editStack')
                /\ imageId \in IdsOf(sessionHistory) => imageId \in IdsOf(sessionHistory')
          /\ SaveCycleStep =>
                saveOutcome' \in {"evicted", "totalFailure", "aborted", "written",
                                  "unchanged", "removed", "empty"}]_vars

\* The image on display was too large for the store: the revert took it out
\* of the gallery, the store is in step with the gallery again, and the
\* image is still displayed, in the chain and first in the session history.
C23_Witness ==
    /\ Idle
    /\ view = "studio"
    /\ saveOutcome = "unchanged"
    /\ generatedImage # Null
    /\ Val(generatedImage).id \notin IdsOf(galleryImages)
    /\ ~Fits(<<Savable(Val(generatedImage))>>)
    /\ editStack = <<Val(generatedImage)>>
    /\ editStackIndex = 0
    /\ sessionHistory[1] = Val(generatedImage)

\* C24 (session history browsing is non-destructive): showing an entry of
\* the session history again changes the displayed image only: the chain,
\* its cursor, the history, the gallery and the store stay as they are and
\* no save cycle is triggered; clearing the session history empties it and
\* leaves the gallery, the store, the chain, its cursor and the displayed
\* image as they are.
C24_HistoryBrowsingNonDestructive ==
    [][/\ \A i \in 1..Len(sessionHistory) :
             ShowHistoryItem(i) =>
                 /\ generatedImage' = Some(sessionHistory[i])
                 /\ UNCHANGED <<editStack, editStackIndex, sessionHistory, galleryImages,
                                localStorage, pendingUpdates, effectPending,
                                activeImage, mode>>
       /\ ClearSessionHistory =>
             /\ sessionHistory' = <<>>
             /\ UNCHANGED <<galleryImages, localStorage, pendingUpdates, effectPending,
                            editStack, editStackIndex, generatedImage>>]_vars

\* An older entry was shown again and the history then cleared: the chain
\* of two images, its cursor, the gallery and the store are as they were,
\* and the image on display is not the one at the cursor.
C24_Witness ==
    /\ Idle
    /\ sessionHistory = <<>>
    /\ Len(editStack) = 2
    /\ editStackIndex = 1
    /\ generatedImage = Some(editStack[1])
    /\ galleryImages = <<editStack[2], editStack[1]>>
    /\ localStorage = JSONStringify(SavableImages(galleryImages))

\* The user leaves the studio while a request is in flight; the answer to
\* a request so abandoned arrives with an image.
NavigatesAway == view' # view /\ request # Null
AbandonedArrival == Len(abandoned') < Len(abandoned) /\ produced' = produced + 1

\* C25 (abandoned requests still land): a handler whose view the user has
\* left keeps waiting; when its image arrives, addImageToGallery is called
\* with it while the new view's state stays as it is; the render of that
\* insert puts the image first in the gallery and schedules a save cycle,
\* unless an image of that id is in the gallery, which is then left as it
\* is.
C25_AbandonedRequestsLand ==
    [][/\ NavigatesAway => abandoned' = Append(abandoned, Val(request))
       /\ AbandonedArrival =>
             /\ Len(pendingUpdates') = Len(pendingUpdates) + 1
             /\ SubSeq(pendingUpdates', 1, Len(pendingUpdates)) = pendingUpdates
             /\ LastUpdate(pendingUpdates').op = "add"
             /\ SerialOf(LastUpdate(pendingUpdates').images[1]) = produced'
             /\ LastUpdate(pendingUpdates').images[1].id = now'
             /\ UNCHANGED <<galleryImages, generatedImage, editStack, editStackIndex,
                            sessionHistory, view>>
       /\ (RenderStep /\ lastPush = Null /\ Len(pendingUpdates) = 1
                      /\ pendingUpdates[1].op = "add") =>
             LET image == pendingUpdates[1].images[1]
             IN  IF image.id \in IdsOf(galleryImages)
                 THEN galleryImages' = galleryImages
                 ELSE galleryImages' = <<image>> \o galleryImages /\ effectPending'
      ]_vars

\* The first image of the session arrived while the gallery view was shown:
\* it stands first in the gallery, before the two stored images, and the
\* save cycle is scheduled.
C25_Witness ==
    /\ view = "gallery"
    /\ effectPending
    /\ pendingUpdates = <<>>
    /\ abandoned = <<>>
    /\ produced = 1
    /\ Len(galleryImages) = 3
    /\ SerialOf(galleryImages[1]) = 1

\* The requests awaiting the backend: that of the mounted ImageStudio and
\* those of ImageStudios the user has left.
InFlight == Len(request) + Len(abandoned)
Dispatched == request' # Null /\ request' # request

\* C26 as stated: at most one transformation is in flight at a time.
C26_OneInFlight == InFlight <= 1

\* C26 (single outstanding transformation), amended: the mounted
\* ImageStudio has at most one request in flight, which is the case exactly
\* while isLoading; it dispatches one only when none is in flight and the
\* last result has been rendered into the gallery and saved, so one result
\* at a time enters its chain. Requests of ImageStudios the user has left
\* stay in flight beside it.
C26_SingleOutstandingPerStudio ==
    /\ [](/\ Len(request) <= 1
          /\ isLoading <=> request # Null
          /\ lastPush # Null => request = Null
          /\ request # Null => view = "studio")
    /\ [][Dispatched =>
             /\ request = Null
             /\ ~isLoading
             /\ Idle
             /\ lastPush = Null
             /\ UNCHANGED <<editStack, editStackIndex, galleryImages, pendingUpdates>>]_vars

\* The user left the studio during a request, came back and started
\* another: two requests are in flight.
C26_Witness ==
    /\ view = "studio"
    /\ isLoading
    /\ request # Null
    /\ Len(abandoned) = 1
    /\ produced = 0

\* The render of nothing but the update a save cycle queued for itself.
OwnUpdateRendered ==
    /\ RenderStep
    /\ Len(pendingUpdates) = 1
    /\ pendingUpdates[1].op \in {"keep", "set"}

\* C27 (save cycles terminate and quiesce): a save cycle on n images calls
\* setItem at most n times, whichever write fails, and n times when it ends
\* in total failure; the cycle that follows the render of the filter or the
\* revert a cycle queued finds the store up to date, or the gallery empty,
\* and calls no setItem; and whenever an update is queued or a save cycle
\* scheduled, a state with neither is reached.
C27_SaveCyclesQuiesce ==
    /\ [][/\ SaveCycleStep =>
              \A faultAt \in AnyFault :
                  LET r == SaveToLocalStorage(galleryImages, localStorage, faultAt)
                  IN  /\ r.attempts <= Len(galleryImages)
                      /\ r.outcome = "totalFailure" => r.attempts = Len(galleryImages)
                      /\ r.outcome = "aborted" => r.attempts = faultAt
          /\ OwnUpdateRendered =>
              /\ effectPending'
              /\ \A faultAt \in AnyFault :
                    LET r == SaveToLocalStorage(galleryImages', localStorage', faultAt)
                    IN  /\ r.attempts = 0
                        /\ r.outcome \in {"unchanged", "empty"}
                        /\ r.update = Null
                        /\ r.item = localStorage]_vars
    /\ (~Idle) ~> Idle

\* An image too large for an empty store was reverted out of the gallery,
\* and the cycle after the revert found the gallery empty: nothing is
\* pending.
C27_Witness ==
    /\ Idle
    /\ view = "studio"
    /\ produced = 1
    /\ generatedImage # Null
    /\ saveOutcome = "empty"
    /\ galleryImages = <<>>
    /\ localStorage = NullItem

\* The result that has arrived found the chain empty and was made from an
\* image of the session given as input.
FirstAfterReset ==
    /\ Pushed
    /\ Push.prevStack = <<>>
    /\ \E i \in 2..Len(sessionHistory) : sessionHistory[i].src = Push.closure.inputUrl

\* C28 ("Use as Input" starts over): it makes the displayed image the
\* input, empties the chain, sets the cursor to -1 and clears the display,
\* and leaves the gallery, the store and the session history as they are;
\* the next result, made from that input, finds the chain empty and gives
\* a chain of that one image with the cursor at 0, whether it was
\* classified as fresh or as a continuation.
C28_UseAsInputStartsOver ==
    /\ [][HandleUseAsInput =>
             /\ activeImage' = Some(FileOf(Val(generatedImage)))
             /\ editStack' = <<>>
             /\ editStackIndex' = -1
             /\ generatedImage' = Null
             /\ UNCHANGED <<galleryImages, localStorage, sessionHistory, pendingUpdates,
                            effectPending>>]_vars
    /\ [](FirstAfterReset =>
             /\ editStack = <<Push.image>>
             /\ editStackIndex = 0
             /\ generatedImage = Some(Push.image))

\* After two images in a chain, the displayed one was made the input and
\* edited: the result is alone in its chain, the history holds the three.
C28_Witness ==
    /\ FirstAfterReset
    /\ Len(sessionHistory) = 3
    /\ Push.closure.handler = "single"
    /\ Push.closure.generatedSrc = NoUrl
    /\ Push.closure.inputUrl = sessionHistory[2].src
    /\ sessionHistory[2].originalSrc = sessionHistory[3].src
    /\ editStack = <<sessionHistory[1]>>
    /\ Len(galleryImages) = 2

\* C29 (reconciliation does not drop concurrent inserts): an image whose
\* insert is rendered together with the filter of an eviction, or with the
\* revert of a total failure, is in the gallery after the render.
C29_ConcurrentInsertsKept ==
    [][RenderStep =>
          \A j, k \in 1..Len(pendingUpdates) :
              (pendingUpdates[j].op = "add" /\ pendingUpdates[k].op \in {"keep", "set"})
                  => pendingUpdates[j].images[1].id \in IdsOf(galleryImages')]_vars

\* The program has started and its first save cycle has not run yet.
AtStartup == saveOutcome = "none"

\* C30 (startup with an undecodable store): at startup the gallery is
\* empty when the store holds nothing or a text that cannot be decoded, and
\* otherwise holds, record for record and in order, the stored fields with
\* src rebuilt from mimeType and base64; the first save cycle runs before
\* anything else, removes an undecodable text, and for a decoded one calls
\* no setItem and leaves the store as it is; it queues no update.
C30_Startup ==
    /\ [](AtStartup =>
             /\ effectPending /\ pendingUpdates = <<>>
             /\ localStorage.kind \in {"null", "garbage"} => galleryImages = <<>>
             /\ localStorage.kind = "json" =>
                   LET records == JSONParse(localStorage)
                   IN  /\ Len(galleryImages) = Len(records)
                       /\ \A i \in 1..Len(records) :
                             /\ galleryImages[i].src
                                    = DataUri(records[i].mimeType, records[i].base64)
                             /\ galleryImages[i].id = records[i].id
                             /\ galleryImages[i].base64 = records[i].base64
                             /\ galleryImages[i].mimeType = records[i].mimeType
                             /\ galleryImages[i].originalSrc = NoUrl)
    /\ [][AtStartup =>
             /\ SaveCycleStep
             /\ NothingQueued
             /\ galleryImages' = galleryImages
             /\ localStorage.kind = "garbage" =>
                   localStorage' = NullItem /\ saveOutcome' = "removed"
             /\ localStorage.kind = "null" =>
                   localStorage' = NullItem /\ saveOutcome' = "empty"
             /\ localStorage.kind = "json" =>
                   /\ localStorage' = localStorage
                   /\ saveOutcome' = "unchanged"
                   /\ \A faultAt \in AnyFault :
                         SaveToLocalStorage(galleryImages, localStorage, faultAt).attempts = 0
         ]_vars

\* The two stored records were loaded and the first save cycle found the
\* store up to date; nothing has been produced.
C30_Witness ==
    /\ Idle
    /\ produced = 0
    /\ saveOutcome = "unchanged"
    /\ localStorage = JSONStringify(<<OldRecord(0), OldRecord(-1)>>)
    /\ galleryImages = ReconstructAll(JSONParse(localStorage))
    /\ galleryImages[1].src = DataUri("image/jpeg", Base64(0, 2))

====
